---- MODULE Spec2Model ----
(***************************************************************************)
(* A model of the travel planner of 07-agent-rag: the Agent (embedding     *)
(* cache, knowledge lists, nearest-neighbour index), the plan pipeline,    *)
(* the Presenter and the demo shell.                                       *)
(*                                                                         *)
(* Text is a sequence of atoms.  An atom is a word without white space,    *)
(* a blank " ", a line feed "\n", a comma "," or one of the fixed label    *)
(* words.  Two texts are the same Python string iff they are the same      *)
(* sequence of atoms.                                                      *)
(***************************************************************************)
EXTENDS Integers, Sequences, FiniteSets, TLC

VARIABLES
    agents,        \* Agent instances by name: fields of Agent.__init__
    embedding_model, \* the embedding endpoint: payload -> vector
    last,          \* the Agent operation called last and its outcome
    loads,         \* number of load_knowledge calls made so far
    loaded,        \* names of the knowledge bases whose load returned
    pc,            \* position of the process: "library", "start", "menu", "exited"
    program,       \* which file is run as __main__
    api_key,       \* the OPENAI_API_KEY environment variable
    choice,        \* the mode chosen at the menu of the demo shell
    trace,         \* what the process did: endpoint calls, prompts, prints
    exit_status,   \* -1 while running, then the exit status of the process
    text_parts,    \* the pieces the itinerary text is put together from
    itinerary_text,\* the text handed to present_itinerary
    itinerary      \* the mapping present_itinerary builds from it

vars == <<agents, embedding_model, last, loads, loaded, pc, program, api_key,
          choice, trace, exit_status, text_parts, itinerary_text, itinerary>>

agentVars == <<agents, last, loads, loaded>>
processVars == <<pc, program, api_key, choice, trace, exit_status>>
presenterVars == <<text_parts, itinerary_text, itinerary>>

-----------------------------------------------------------------------------
(* Bounds of the model *)

\* dimension of an embedding vector (embedding_dim, 1536 in the program)
EmbeddingDim == 1
\* largest coordinate of an embedding vector
MaxCoord == 2
\* load_knowledge calls in one behaviour of the Agent specification
MaxLoads == 2
\* number of parts an itinerary text is put together from
MaxParts == 5
\* invalid choices typed at the menu of the demo shell
MaxInvalidChoices == 1
\* longest list of records a digest is made of
MaxRecords == 2

-----------------------------------------------------------------------------
(* Python helpers *)

None == <<"None">>

Min(a, b) == IF a <= b THEN a ELSE b

IsSpace(atom) == atom \in {" ", "\n"}

\* str.strip(): white space removed at both ends
RECURSIVE lstrip(_)
lstrip(s) == IF s # <<>> /\ IsSpace(Head(s)) THEN lstrip(Tail(s)) ELSE s

RECURSIVE rstrip(_)
rstrip(s) ==
    IF s # <<>> /\ IsSpace(s[Len(s)]) THEN rstrip(SubSeq(s, 1, Len(s) - 1)) ELSE s

strip(s) == rstrip(lstrip(s))

\* list[i] of Python for a 0-based i, negative i counting from the end;
\* the result is [ok |-> FALSE] where Python raises IndexError
list_getitem(list, i) ==
    LET j == IF i < 0 THEN i + Len(list) ELSE i
    IN  IF j >= 0 /\ j < Len(list)
        THEN [ok |-> TRUE, value |-> list[j + 1]]
        ELSE [ok |-> FALSE, value |-> None]

\* an insertion-ordered dict is a sequence of <<key, value>> pairs
dict_keys(d) == [i \in 1..Len(d) |-> d[i][1]]
dict_has(d, k) == \E i \in 1..Len(d) : d[i][1] = k
dict_get(d, k) == d[CHOOSE i \in 1..Len(d) : d[i][1] = k][2]
\* d[k] = v: an existing key keeps its place and gets the new value
dict_set(d, k, v) ==
    IF dict_has(d, k)
    THEN [i \in 1..Len(d) |-> IF d[i][1] = k THEN <<k, v>> ELSE d[i]]
    ELSE Append(d, <<k, v>>)

RECURSIVE Concat(_)
Concat(ss) == IF ss = <<>> THEN <<>> ELSE Head(ss) \o Concat(Tail(ss))

Range(s) == {s[i] : i \in 1..Len(s)}

-----------------------------------------------------------------------------
(* Texts *)

\* words joined by single blanks
RECURSIVE Sentence(_)
Sentence(words) ==
    IF Len(words) <= 1 THEN words
    ELSE <<Head(words), " ">> \o Sentence(Tail(words))

EmpireStateBuilding == Sentence(<<"Empire", "State", "Building">>)
CentralPark == Sentence(<<"Central", "Park">>)
MetropolitanMuseum == Sentence(<<"The", "Metropolitan", "Museum", "of", "Art">>)
HighLine == Sentence(<<"High", "Line">>)
Museums == <<"museums">>
BroadwayShows == Sentence(<<"Broadway", "shows">>)
\* a query that differs from the title Central Park by a line feed only
CentralParkTwoLines == <<"Central", "\n", "Park">>

\* preferences of main() and of run_quick_demo()
MainPreferences ==
    Sentence(<<"I", "prefer", "a", "mix", "of", "sightseeing,", "cultural",
               "experiences,", "and", "trying", "local", "food.", "I", "like",
               "to", "walk", "a", "lot", "but", "also", "want", "to", "use",
               "public", "transport.">>)
\* the default of the preferences prompt of get_user_preferences()
DefaultPreferences ==
    Sentence(<<"I", "prefer", "cultural", "experiences", "and", "local", "food">>)
\* the default of the interests prompt of get_user_preferences()
DefaultInterestsLine ==
    <<"museums", ",", " ", "Broadway", " ", "shows", ",", " ", "Central", " ", "Park">>
\* answers a user types
TypedPreferences == Sentence(<<"quiet", "places">>)
TypedInterestsLine == <<"High", " ", "Line", ",", "museums">>

\* the queries of test_vector_search()
test_queries ==
    << Sentence(<<"museums", "and", "art", "galleries">>),
       Sentence(<<"fine", "dining", "restaurants">>),
       Sentence(<<"outdoor", "activities">>),
       Sentence(<<"cultural", "experiences">>) >>

-----------------------------------------------------------------------------
(* Knowledge bases: a two-level mapping, category -> title -> record *)

nyc_knowledge ==
    << <<"attractions",
         << <<EmpireStateBuilding,
              << <<"description", "Iconic skyscraper">>,
                 <<"address", "350 Fifth Avenue, Manhattan">>,
                 <<"website", "www.esbnyc.com">>,
                 <<"tips", <<"Purchase tickets online", "Visit day and night">> >> >> >>,
            <<CentralPark,
              << <<"description", "A vast green oasis">>,
                 <<"activities", <<"zoo", "rowboat", "theater", "picnic">> >>,
                 <<"tips", <<"Download a map">> >> >> >>,
            <<MetropolitanMuseum,
              << <<"description", "One of the finest art museums">>,
                 <<"address", "1000 Fifth Avenue, Manhattan">>,
                 <<"website", "www.metmuseum.org">>,
                 <<"tips", <<"Allow ample time", "Consider a guided tour">> >> >> >> >> >> >>

\* a base of six records in two categories; two titles occur in both
city_guide ==
    << <<"attractions",
         << <<EmpireStateBuilding, << <<"description", "Observation decks">> >> >>,
            <<CentralPark, << <<"description", "Picnics and walks">> >> >>,
            <<MetropolitanMuseum, << <<"description", "Art museum">> >> >> >> >>,
       <<"parks",
         << <<CentralPark, << <<"description", "The Great Lawn">> >> >>,
            <<HighLine, << <<"description", "Elevated park">> >> >>,
            <<EmpireStateBuilding, << <<"description", "Seen from Bryant Park">> >> >> >> >> >>

KnowledgeBases == [nyc |-> nyc_knowledge, guide |-> city_guide]

\* the (title, record) pairs of a base in iteration order of the two loops
RECURSIVE Items(_)
Items(knowledge_data) ==
    IF knowledge_data = <<>> THEN <<>>
    ELSE Head(knowledge_data)[2] \o Items(Tail(knowledge_data))

Titles(knowledge_data) == {it[1] : it \in Range(Items(knowledge_data))}

LibraryQueries == {Museums, CentralPark, CentralParkTwoLines}

AllTexts ==
    << EmpireStateBuilding, CentralPark, MetropolitanMuseum, HighLine, Museums,
       BroadwayShows, MainPreferences, DefaultPreferences, TypedPreferences,
       test_queries[1], test_queries[2], test_queries[3], test_queries[4] >>

-----------------------------------------------------------------------------
(* The embedding endpoint *)

\* text.replace("\n", " ")
replace_newlines(text) ==
    [i \in 1..Len(text) |-> IF text[i] = "\n" THEN " " ELSE text[i]]

Vectors == [1..EmbeddingDim -> 0..MaxCoord]

NumVectors == Cardinality(Vectors)

RECURSIVE Power(_, _)
Power(b, n) == IF n = 0 THEN 1 ELSE b * Power(b, n - 1)

\* the n-th vector, n in 0..NumVectors-1
VectorOf(n) ==
    [i \in 1..EmbeddingDim |-> (n \div Power(MaxCoord + 1, i - 1)) % (MaxCoord + 1)]

Payloads == {replace_newlines(AllTexts[i]) : i \in 1..Len(AllTexts)}

Rank(payload) == CHOOSE i \in 1..Len(AllTexts) : AllTexts[i] = payload

\* the endpoints the model tries: every payload the same vector (stride 0),
\* or payloads spread over the vectors
EmbeddingModels ==
    { [p \in Payloads |-> VectorOf((Rank(p) * stride + shift) % NumVectors)] :
        stride \in 0..1, shift \in 0..1 }

-----------------------------------------------------------------------------
(* Execution contexts *)

(* The Python operations are functions of a context
     [agent, trace, okLeft, exc, value]:
   the Agent they act on, the events of the run so far, the number of
   endpoint calls that will still be answered before the endpoint fails,
   the exception that is propagating ("none" when there is none) and the
   value last returned. *)
Context(agent, okLeft) ==
    [agent |-> agent, trace |-> <<>>, okLeft |-> okLeft, exc |-> "none", value |-> None]

Raised(ctx) == ctx.exc # "none"

Emit(ctx, event) == [ctx EXCEPT !.trace = Append(@, event)]

Return(ctx, value) == [ctx EXCEPT !.value = value]

Raise(ctx, exc) == [ctx EXCEPT !.exc = exc, !.value = None]

\* F(v), with v evaluated once
Let(v, F(_)) == CHOOSE r \in {F(x) : x \in {v}} : TRUE

\* the statements F after a call: they run on the context the call left,
\* unless the call raised
Then(ctx, F(_)) == CHOOSE r \in {IF Raised(x) THEN x ELSE F(x) : x \in {ctx}} : TRUE

\* get_embedding as it would be with one retry: a request that fails is sent
\* once more
get_embedding_retrying(ctx, text) ==
    LET input == replace_newlines(text)
        call == [ev |-> "embedding", who |-> ctx.agent.name, text |-> text,
                 input |-> input, ok |-> ctx.okLeft > 0]
    IN  IF ctx.okLeft > 0
        THEN Return([Emit(ctx, call) EXCEPT !.okLeft = @ - 1], embedding_model[input])
        ELSE Raise(Emit(Emit(ctx, call), call), "APIError")

\* get_embedding(text): one request to the embedding endpoint
get_embedding(ctx, text) ==
    LET input == replace_newlines(text)
        call == [ev |-> "embedding", who |-> ctx.agent.name, text |-> text,
                 input |-> input, ok |-> ctx.okLeft > 0]
    IN  IF ctx.okLeft > 0
        THEN Return([Emit(ctx, call) EXCEPT !.okLeft = @ - 1], embedding_model[input])
        ELSE Raise(Emit(ctx, call), "APIError")

-----------------------------------------------------------------------------
(* Agent *)

\* Agent.__init__
Agent(name, cache_size) ==
    [name |-> name,
     cache_size |-> cache_size,
     embedding_dim |-> EmbeddingDim,
     index |-> <<>>,
     knowledge_embeddings |-> <<>>,
     knowledge_data |-> <<>>,
     embedding_cache |-> <<>>]

\* the embedding of a text as it would be obtained without the cache lookup:
\* always from the endpoint
uncached_embedding(ctx, text) ==
    Then(get_embedding(ctx, text), LAMBDA got :
      [got EXCEPT !.agent.embedding_cache =
          [t \in DOMAIN @ \cup {text} |-> IF t = text THEN got.value ELSE @[t]]])

\* the embedding of a text as it would be obtained with a cache that holds
\* cache_size entries at most: a full cache is emptied before the new entry
evicting_embedding(ctx, text) ==
    IF text \in DOMAIN ctx.agent.embedding_cache
    THEN Return(ctx, ctx.agent.embedding_cache[text])
    ELSE Then(get_embedding(ctx, text), LAMBDA got :
           [got EXCEPT !.agent.embedding_cache =
               IF Cardinality(DOMAIN @) >= got.agent.cache_size
               THEN [t \in {text} |-> got.value]
               ELSE [t \in DOMAIN @ \cup {text} |->
                       IF t = text THEN got.value ELSE @[t]]])

\* the embedding of a text: from the cache, or from the endpoint and then
\* stored in the cache
cached_embedding(ctx, text) ==
    IF text \in DOMAIN ctx.agent.embedding_cache
    THEN Return(ctx, ctx.agent.embedding_cache[text])
    ELSE Then(get_embedding(ctx, text), LAMBDA got :
           [got EXCEPT !.agent.embedding_cache =
               [t \in DOMAIN @ \cup {text} |-> IF t = text THEN got.value ELSE @[t]]])

\* index.add(vectors) of IndexFlatL2: the vectors are stored after the ones
\* the index holds
index_add(index, vectors) == index \o vectors

\* the loop of load_knowledge from item i on, then the index.add
RECURSIVE load_items(_, _, _)
load_items(ctx, items, i) ==
    IF i > Len(items)
    THEN Return([ctx EXCEPT !.agent.index =
                     index_add(@, ctx.agent.knowledge_embeddings)], None)
    ELSE Then(cached_embedding(ctx, items[i][1]), LAMBDA got :
           Let([got EXCEPT !.agent.knowledge_embeddings = Append(@, got.value),
                           !.agent.knowledge_data = Append(@, items[i][2])],
               LAMBDA next : load_items(next, items, i + 1)))

\* Agent.load_knowledge
load_knowledge(ctx, knowledge_data) ==
    Let(Items(knowledge_data), LAMBDA items : load_items(ctx, items, 1))

\* squared Euclidean distance, the metric of IndexFlatL2
L2(u, v) ==
    LET RECURSIVE Sum(_)
        Sum(i) == IF i = 0 THEN 0 ELSE (u[i] - v[i]) * (u[i] - v[i]) + Sum(i - 1)
    IN  Sum(Len(u))

\* the k stored positions (0-based) nearest to the query among `left`, by
\* non-decreasing distance, ties by position; D[p + 1] is the distance of p
RECURSIVE nearest(_, _, _)
nearest(D, left, k) ==
    IF left = {} \/ k = 0 THEN <<>>
    ELSE Let(CHOOSE p \in left : \A o \in left :
                \/ D[p + 1] < D[o + 1]
                \/ (D[p + 1] = D[o + 1] /\ p <= o),
             LAMBDA best : <<best>> \o nearest(D, left \ {best}, k - 1))

\* index.search(query, k) of IndexFlatL2: k labels, -1 where the index holds
\* fewer than k vectors
index_search(index, query, k) ==
    Let([j \in 1..Len(index) |-> L2(index[j], query)], LAMBDA D :
      Let(nearest(D, 0..(Len(index) - 1), k), LAMBDA order :
        [j \in 1..k |-> IF j <= Len(order) THEN order[j] ELSE -1]))

\* the loop of retrieve_knowledge over the labels from j on
RECURSIVE collect(_, _, _, _)
collect(ctx, labels, j, relevant_info) ==
    IF j > Len(labels) THEN Return(ctx, relevant_info)
    ELSE Let(list_getitem(ctx.agent.knowledge_data, labels[j]), LAMBDA item :
           IF item.ok
           THEN Let(Append(relevant_info, item.value),
                    LAMBDA more : collect(ctx, labels, j + 1, more))
           ELSE Raise(ctx, "IndexError"))

\* number of neighbours retrieve_knowledge asks for
K == 5

\* Agent.retrieve_knowledge
retrieve_knowledge(ctx, query) ==
    Then(cached_embedding(ctx, query), LAMBDA got :
      Let(index_search(got.agent.index, got.value, K), LAMBDA labels :
        collect(got, labels, 1, <<>>)))

-----------------------------------------------------------------------------
(* Presenter *)

\* the atoms \s and \d match
Spaces == {" ", "\n"}
Digits == {"0", "1", "2", "3", "4", "5", "6", "7", "8", "9"}

\* number of atoms from position i on that are in the class
RECURSIVE run_length(_, _, _)
run_length(text, i, class) ==
    IF i <= Len(text) /\ text[i] \in class
    THEN 1 + run_length(text, i + 1, class)
    ELSE 0

\* length of the match of (Transportation:|Accommodation:) alone
match_fixed_label(text, i) ==
    IF i > Len(text) THEN 0
    ELSE IF text[i] \in {"Transportation:", "Accommodation:"} THEN 1
    ELSE 0

\* length of the match of (Transportation:|Accommodation:|Day\s+\d+:) that
\* starts at position i of the text, 0 when none starts there
match_label(text, i) ==
    IF i > Len(text) THEN 0
    ELSE IF text[i] \in {"Transportation:", "Accommodation:"} THEN 1
    ELSE IF text[i] = "Day"
    THEN LET spaces == run_length(text, i + 1, Spaces)
             digits == run_length(text, i + 1 + spaces, Digits)
             colon == i + 1 + spaces + digits
         IN  IF spaces >= 1 /\ digits >= 1 /\ colon <= Len(text) /\ text[colon] = ":"
             THEN 2 + spaces + digits
             ELSE 0
    ELSE 0

\* re.split with the pattern in one group: the text between the matches and
\* the matches, in order
RECURSIVE re_split(_, _, _, _)
re_split(text, i, piece, sections) ==
    IF i > Len(text) THEN Append(sections, piece)
    ELSE LET m == match_label(text, i)
         IN  IF m > 0
             THEN re_split(text, i + m, <<>>,
                           sections \o <<piece, SubSeq(text, i, i + m - 1)>>)
             ELSE re_split(text, i + 1, Append(piece, text[i]), sections)

\* the loop of present_itinerary over the sections from j on
RECURSIVE parse_sections(_, _, _, _)
parse_sections(sections, j, current_section, result) ==
    IF j > Len(sections) THEN result
    ELSE Let(strip(sections[j]), LAMBDA section :
           IF section = <<>>
           THEN parse_sections(sections, j + 1, current_section, result)
           ELSE IF section \in {<<"Transportation:">>, <<"Accommodation:">>}
           THEN Let(dict_set(result, section, <<>>),
                    LAMBDA next : parse_sections(sections, j + 1, section, next))
           ELSE IF match_label(section, 1) > 0
           THEN Let(dict_set(result, section, <<>>),
                    LAMBDA next : parse_sections(sections, j + 1, section, next))
           ELSE IF current_section # None
           THEN Let(dict_set(result, current_section,
                             Append(dict_get(result, current_section), section)),
                    LAMBDA next : parse_sections(sections, j + 1, current_section, next))
           ELSE parse_sections(sections, j + 1, current_section, result))

\* the mapping present_itinerary builds: label -> list of fragments
parse_itinerary(text) ==
    Let(re_split(text, 1, <<>>, <<>>),
        LAMBDA sections : parse_sections(sections, 1, None, <<>>))

-----------------------------------------------------------------------------
(* Dates *)

\* the numerals that occur in the dates of the model
NumeralValue ==
    ("2024" :> 2024) @@ ("04" :> 4) @@ ("05" :> 5) @@ ("10" :> 10) @@
    ("12" :> 12) @@ ("15" :> 15) @@ ("01" :> 1) @@ ("31" :> 31)

IsLeap(year) == year % 4 = 0 /\ (year % 100 # 0 \/ year % 400 = 0)

DaysInMonth(year, month) ==
    IF month = 2 THEN (IF IsLeap(year) THEN 29 ELSE 28)
    ELSE IF month \in {4, 6, 9, 11} THEN 30 ELSE 31

RECURSIVE DaysBeforeMonth(_, _)
DaysBeforeMonth(year, month) ==
    IF month = 1 THEN 0
    ELSE DaysBeforeMonth(year, month - 1) + DaysInMonth(year, month - 1)

\* date.toordinal(): the number of the day, 0001-01-01 being day 1
toordinal(year, month, day) ==
    LET y == year - 1
    IN  y * 365 + y \div 4 - y \div 100 + y \div 400 + DaysBeforeMonth(year, month) + day

\* datetime.strptime(text, "%Y-%m-%d"); ok is FALSE where it raises ValueError
strptime(text) ==
    IF /\ Len(text) = 5
       /\ text[2] = "-" /\ text[4] = "-"
       /\ {text[1], text[3], text[5]} \subseteq DOMAIN NumeralValue
       /\ NumeralValue[text[1]] >= 1
       /\ NumeralValue[text[3]] \in 1..12
       /\ NumeralValue[text[5]] \in
            1..DaysInMonth(NumeralValue[text[1]], NumeralValue[text[3]])
    THEN [ok |-> TRUE,
          ordinal |-> toordinal(NumeralValue[text[1]], NumeralValue[text[3]],
                                NumeralValue[text[5]])]
    ELSE [ok |-> FALSE, ordinal |-> 0]

\* the difference as it would be with both the first and the last day counted
days_inclusive(start_date, end_date) == end_date.ordinal - start_date.ordinal + 1

\* (end_date - start_date).days
days_between(start_date, end_date) == end_date.ordinal - start_date.ordinal

Date(year, month, day) == <<year, "-", month, "-", day>>

-----------------------------------------------------------------------------
(* Plan and presentation *)

\* Agent.present_itinerary
present_itinerary(ctx, text, budget, travel_dates) ==
    Let(parse_itinerary(text), LAMBDA result :
      Let(strptime(travel_dates[1]), LAMBDA start_date :
        Let(strptime(travel_dates[2]), LAMBDA end_date :
          IF ~start_date.ok \/ ~end_date.ok THEN Raise(ctx, "ValueError")
          ELSE Return(Emit(ctx, [ev |-> "present", text |-> text,
                                 itinerary |-> result,
                                 num_days |-> days_between(start_date, end_date)]),
                      None))))

\* the lines summarize_knowledge writes for one record
summary_of(item) ==
    << <<"**", item[1][1], "**">>,
       <<"Description: ",
         IF dict_has(item, "description") THEN dict_get(item, "description") ELSE "N/A">> >>
    \o (IF dict_has(item, "address")
        THEN << <<"Address: ", dict_get(item, "address")>> >> ELSE <<>>)
    \o (IF dict_has(item, "website")
        THEN << <<"Website: ", dict_get(item, "website")>> >> ELSE <<>>)
    \o (IF dict_has(item, "tips")
        THEN << <<"Tips:">> >> \o [t \in 1..Len(dict_get(item, "tips")) |->
                                     <<dict_get(item, "tips")[t]>>]
        ELSE <<>>)
    \o << <<>> >>

\* the digest as it would be with a heading line before the records
summarize_with_heading(knowledge_list) ==
    << <<"Relevant knowledge:">> >>
    \o Concat([i \in 1..Len(knowledge_list) |-> summary_of(knowledge_list[i])])

\* Agent.summarize_knowledge: the digest as its sequence of lines, the empty
\* sequence being the empty string
RECURSIVE summarize_knowledge(_)
summarize_knowledge(knowledge_list) ==
    IF knowledge_list = <<>> THEN <<>>
    ELSE summary_of(Head(knowledge_list)) \o summarize_knowledge(Tail(knowledge_list))

\* input(prompt): the line the user types at the prompt
input(ctx, keyboard, prompt) ==
    Return(Emit(ctx, [ev |-> "input", prompt |-> prompt, line |-> keyboard[prompt]]),
           keyboard[prompt])

\* the retrievals of a plan that looks up the preference text only
retrieve_first(ctx, queries, j, relevant_knowledge) ==
    IF j > 1 THEN Return(ctx, relevant_knowledge)
    ELSE Then(retrieve_knowledge(Emit(ctx, [ev |-> "retrieve", query |-> queries[j]]),
                                 queries[j]),
              LAMBDA got : Return(got, relevant_knowledge \o got.value))

\* the retrievals of plan_nyc_trip for the queries from j on
RECURSIVE retrieve_all(_, _, _, _)
retrieve_all(ctx, queries, j, relevant_knowledge) ==
    IF j > Len(queries) THEN Return(ctx, relevant_knowledge)
    ELSE Then(retrieve_knowledge(Emit(ctx, [ev |-> "retrieve", query |-> queries[j]]),
                                 queries[j]),
              LAMBDA got :
                Let(relevant_knowledge \o got.value,
                    LAMBDA more : retrieve_all(got, queries, j + 1, more)))

\* client.chat.completions.create: one request to the generation endpoint,
\* answered with the text `generated`
chat_completion(ctx, system_prompt, user_query, generated) ==
    IF ctx.okLeft > 0
    THEN Return([Emit(ctx, [ev |-> "chat", system |-> system_prompt,
                            user |-> user_query, ok |-> TRUE,
                            response |-> generated])
                   EXCEPT !.okLeft = @ - 1], generated)
    ELSE Raise(Emit(ctx, [ev |-> "chat", system |-> system_prompt,
                          user |-> user_query, ok |-> FALSE, response |-> None]),
               "APIError")

\* Agent.plan_nyc_trip
plan_nyc_trip(ctx, travel_dates, budget, preferences, interests, keyboard, generated) ==
    Then(input(ctx, keyboard, "Preferred mode of transport"), LAMBDA transport :
    Then(input(transport, keyboard, "Preferred accommodation type"), LAMBDA accommodation :
    Then(retrieve_all(accommodation, <<preferences>> \o interests, 1, <<>>),
         LAMBDA retrieved :
    Then(chat_completion(retrieved,
                         [transport_mode |-> transport.value,
                          accommodation_type |-> accommodation.value],
                         [travel_dates |-> travel_dates, preferences |-> preferences,
                          interests |-> interests,
                          knowledge |-> summarize_knowledge(retrieved.value)],
                         generated),
         LAMBDA response :
    Then(present_itinerary(Emit(response, [ev |-> "print_plan", text |-> response.value]),
                           response.value, budget, travel_dates),
         LAMBDA presented :
    Return(Emit(presented, [ev |-> "return", from |-> "plan_nyc_trip", value |-> None]),
           None))))))

-----------------------------------------------------------------------------
(* The Agent used as a library: any sequence of loads and retrievals *)

AgentNames == {"NYCAI", "TestAgent"}

\* the instance the library specification drives
Library == "NYCAI"

NewAgents == [a \in AgentNames |-> Agent(a, IF a = "NYCAI" THEN 1000 ELSE 100)]

NoCall == [op |-> "none", who |-> "none", arg |-> None, calls |-> <<>>,
           exc |-> "none", value |-> None]

Outcome(op, arg, ctx) ==
    [op |-> op, who |-> ctx.agent.name, arg |-> arg, calls |-> ctx.trace,
     exc |-> ctx.exc, value |-> ctx.value]

IdleProcess ==
    /\ pc = "library"
    /\ program = "none"
    /\ api_key = "set"
    /\ choice = "none"
    /\ trace = <<>>
    /\ exit_status = -1

IdlePresenter ==
    /\ text_parts = <<>>
    /\ itinerary_text = <<>>
    /\ itinerary = <<>>

LibraryInit ==
    /\ agents = NewAgents
    /\ embedding_model \in EmbeddingModels
    /\ last = NoCall
    /\ loads = 0
    /\ loaded = {}
    /\ IdleProcess
    /\ IdlePresenter

\* agent.load_knowledge(base), the endpoint answering okLeft more requests
Load(base, okLeft) ==
    /\ pc = "library"
    /\ loads < MaxLoads
    /\ \E ctx \in {load_knowledge(Context(agents[Library], okLeft),
                                    KnowledgeBases[base])} :
           /\ agents' = [agents EXCEPT ![Library] = ctx.agent]
           /\ last' = Outcome("load_knowledge", base, ctx)
           /\ loaded' = IF Raised(ctx) THEN loaded ELSE loaded \cup {base}
    /\ loads' = loads + 1
    /\ UNCHANGED <<embedding_model, processVars, presenterVars>>

\* agent.retrieve_knowledge(query)
Retrieve(query, okLeft) ==
    /\ pc = "library"
    /\ \E ctx \in {retrieve_knowledge(Context(agents[Library], okLeft), query)} :
           /\ agents' = [agents EXCEPT ![Library] = ctx.agent]
           /\ last' = Outcome("retrieve_knowledge", query, ctx)
    /\ UNCHANGED <<embedding_model, loads, loaded, processVars, presenterVars>>

LibraryNext ==
    \/ \E base \in DOMAIN KnowledgeBases :
         \E okLeft \in 0..Len(Items(KnowledgeBases[base])) : Load(base, okLeft)
    \/ \E query \in LibraryQueries : \E okLeft \in 0..1 : Retrieve(query, okLeft)

LibrarySpec == LibraryInit /\ [][LibraryNext]_vars

-----------------------------------------------------------------------------
(* Claims about the Agent as a library *)

AllItems == Concat([b \in 1..2 |-> Items(KnowledgeBases[<<"nyc", "guide">>[b]])])

\* the title under which a record stands in its knowledge base
TitleOf(record) == (CHOOSE it \in Range(AllItems) : it[2] = record)[1]

LoadReturned == last.op = "load_knowledge" /\ last.exc = "none"

RetrieveReturned == last.op = "retrieve_knowledge" /\ last.exc = "none"

\* C1: after every load the index holds as many vectors as the record list holds
\* records, and the vector at position i is the embedding of the title of
\* record i.
C1_IndexAligned ==
    LoadReturned =>
        LET agent == agents[last.who]
        IN  /\ Len(agent.index) = Len(agent.knowledge_data)
            /\ \A i \in 1..Len(agent.index) :
                 agent.index[i] = agent.embedding_cache[TitleOf(agent.knowledge_data[i])]

\* the agent holds one vector per record: no load has failed or been repeated
CleanlyLoaded(agent) ==
    /\ agent.knowledge_data # <<>>
    /\ Len(agent.index) = Len(agent.knowledge_data)

\* C2: retrieve returns at most min(5, N) records of the record list, by
\* non-decreasing distance of their title embedding from the query embedding,
\* and with N < 5 no more than N records and no record twice.
C2_AtMostMinK ==
    (RetrieveReturned /\ CleanlyLoaded(agents[last.who])) =>
        LET agent == agents[last.who]
            N == Len(agent.knowledge_data)
            found == last.value
            Distance(j) == L2(agent.embedding_cache[TitleOf(found[j])],
                              agent.embedding_cache[last.arg])
        IN  /\ Len(found) <= Min(K, N)
            /\ \A j \in 1..Len(found) : found[j] \in Range(agent.knowledge_data)
            /\ \A j \in 1..(Len(found) - 1) : Distance(j) <= Distance(j + 1)
            /\ N < K => \A i, j \in 1..Len(found) : found[i] = found[j] => i = j

\* the texts an operation submitted to the embedding endpoint
Submitted(call) == [i \in 1..Len(call.calls) |-> call.calls[i].text]

\* C3: a text whose embedding the agent has obtained is never submitted to the
\* embedding endpoint again, and a load of a knowledge base that was loaded
\* before issues no embedding call.
C3_NoRepeatedEmbedding ==
    [][ /\ \A t \in DOMAIN agents[Library].embedding_cache :
             t \notin Range(Submitted(last'))
        /\ \A i, j \in 1..Len(last'.calls) :
             (i < j /\ last'.calls[i].ok) => last'.calls[i].text # last'.calls[j].text
        /\ (last'.op = "load_knowledge" /\ last'.arg \in loaded) => last'.calls = <<>>
      ]_vars

\* a second load of the same base has returned, after a retrieval
C3_Witness ==
    /\ LoadReturned
    /\ last.arg = "nyc"
    /\ loads = 2
    /\ last.calls = <<>>
    /\ Museums \in DOMAIN agents[Library].embedding_cache
    /\ Len(agents[Library].knowledge_data) = 6

-----------------------------------------------------------------------------
(* Demo shell *)

\* str.split(","): the pieces of the text between the commas
RECURSIVE split_commas(_, _, _)
split_commas(text, i, piece) ==
    IF i > Len(text) THEN <<piece>>
    ELSE IF text[i] = "," THEN <<piece>> \o split_commas(text, i + 1, <<>>)
    ELSE split_commas(text, i + 1, Append(piece, text[i]))

\* input(prompt) or default
input_or(ctx, keyboard, prompt, default) ==
    Let(input(ctx, keyboard, prompt), LAMBDA got :
      IF got.value = <<>> THEN Return(got, default) ELSE got)

\* TravelPlannerDemo.setup_environment; the packages it imports were imported
\* with the main module before it runs
setup_environment(ctx) ==
    IF api_key \in {"absent", "empty"}
    THEN Raise(Emit(ctx, [ev |-> "diagnostic", what |-> "OPENAI_API_KEY not found"]),
               "SystemExit")
    ELSE Return(ctx, None)

\* TravelPlannerDemo.initialize_agent
initialize_agent(ctx) ==
    load_knowledge([ctx EXCEPT !.agent = Agent("NYCAI", 1000)], nyc_knowledge)

\* TravelPlannerDemo.get_user_preferences
get_user_preferences(ctx, keyboard) ==
    Let(input_or(ctx, keyboard, "start_date", Date("2024", "04", "10")),
        LAMBDA start_date :
    Let(input_or(start_date, keyboard, "end_date", Date("2024", "04", "15")),
        LAMBDA end_date :
    Let(input_or(end_date, keyboard, "budget", <<"10000">>), LAMBDA budget :
    Let(input_or(budget, keyboard, "transport_mode", <<"airplane">>),
        LAMBDA transport_mode :
    Let(input_or(transport_mode, keyboard, "accommodation_type", <<"hotel">>),
        LAMBDA accommodation_type :
    Let(input_or(accommodation_type, keyboard, "preferences", DefaultPreferences),
        LAMBDA preferences :
    Let(input_or(preferences, keyboard, "interests", DefaultInterestsLine),
        LAMBDA interests_input :
    Let(split_commas(interests_input.value, 1, <<>>), LAMBDA pieces :
      Return(interests_input,
             [travel_dates |-> <<start_date.value, end_date.value>>,
              budget |-> <<"$">> \o budget.value,
              transport_mode |-> transport_mode.value,
              accommodation_type |-> accommodation_type.value,
              preferences |-> preferences.value,
              interests |-> [j \in 1..Len(pieces) |-> strip(pieces[j])]])))))))))

\* TravelPlannerDemo.generate_travel_plan
generate_travel_plan(ctx, user_prefs, keyboard, generated) ==
    plan_nyc_trip(Emit(ctx, [ev |-> "print_prefs",
                             transport_mode |-> user_prefs.transport_mode,
                             accommodation_type |-> user_prefs.accommodation_type]),
                  user_prefs.travel_dates, user_prefs.budget, user_prefs.preferences,
                  user_prefs.interests, keyboard, generated)

\* TravelPlannerDemo.analyze_results
analyze_results(ctx, user_prefs) ==
    Let(strptime(user_prefs.travel_dates[1]), LAMBDA start_date :
      Let(strptime(user_prefs.travel_dates[2]), LAMBDA end_date :
        IF ~start_date.ok \/ ~end_date.ok THEN Raise(ctx, "ValueError")
        ELSE Return(Emit(ctx, [ev |-> "analysis",
                               num_days |-> days_between(start_date, end_date)]),
                    None)))

\* what SystemExit and KeyboardInterrupt are not: a subclass of Exception
IsException(exc) == exc \notin {"none", "SystemExit", "KeyboardInterrupt"}

\* handler `except Exception as e`: a diagnostic, and the stack trace if asked
except_Exception(ctx, what, print_exc) ==
    IF ~IsException(ctx.exc) THEN ctx
    ELSE [ctx EXCEPT
            !.trace = @ \o << [ev |-> "diagnostic", what |-> what] >>
                        \o (IF print_exc
                            THEN << [ev |-> "traceback", exc |-> ctx.exc,
                                     uncaught |-> FALSE] >>
                            ELSE <<>>),
            !.exc = "none",
            !.value = None]

\* the steps of a demo after the agent is initialized
demo_steps(ctx, user_prefs, keyboard, generated) ==
    Then(generate_travel_plan(ctx, user_prefs, keyboard, generated),
         LAMBDA planned : analyze_results(planned, user_prefs))

\* the try block of TravelPlannerDemo.run_demo
run_demo_body(ctx, keyboard, generated) ==
    Then(initialize_agent(ctx), LAMBDA ready :
      Let(get_user_preferences(ready, keyboard), LAMBDA asked :
        demo_steps(asked, asked.value, keyboard, generated)))

\* TravelPlannerDemo.run_demo; the user does not interrupt the process
run_demo(ctx, keyboard, generated) ==
    Let(run_demo_body(ctx, keyboard, generated),
        LAMBDA done : except_Exception(done, "error", TRUE))

\* the parameters run_quick_demo presets
demo_prefs ==
    [travel_dates |-> <<Date("2024", "04", "10"), Date("2024", "04", "15")>>,
     budget |-> <<"$", "10000">>,
     transport_mode |-> <<"airplane">>,
     accommodation_type |-> <<"hotel">>,
     preferences |-> MainPreferences,
     interests |-> <<Museums, BroadwayShows, CentralPark>>]

\* the try block of run_quick_demo
run_quick_demo_body(ctx, keyboard, generated) ==
    Then(setup_environment(ctx), LAMBDA demo :
      Then(initialize_agent(demo), LAMBDA ready :
        demo_steps(ready, demo_prefs, keyboard, generated)))

\* run_quick_demo as it would be with the handler of run_demo
run_quick_demo_traced(ctx, keyboard, generated) ==
    Let(run_quick_demo_body(ctx, keyboard, generated),
        LAMBDA done : except_Exception(done, "demo failed", TRUE))

\* run_quick_demo
run_quick_demo(ctx, keyboard, generated) ==
    Let(run_quick_demo_body(ctx, keyboard, generated),
        LAMBDA done : except_Exception(done, "demo failed", FALSE))

\* the loop of test_vector_search over the queries from j on
RECURSIVE search_all(_, _, _)
search_all(ctx, queries, j) ==
    IF j > Len(queries) THEN Return(ctx, None)
    ELSE Then(retrieve_knowledge(Emit(ctx, [ev |-> "retrieve", query |-> queries[j]]),
                                 queries[j]),
              LAMBDA got :
                Let(Emit(got, [ev |-> "results", found |-> Len(got.value)]),
                    LAMBDA next : search_all(next, queries, j + 1)))

\* the try block of test_vector_search
test_vector_search_body(ctx) ==
    Then(load_knowledge([ctx EXCEPT !.agent = Agent("TestAgent", 100)], nyc_knowledge),
         LAMBDA ready : search_all(ready, test_queries, 1))

\* test_vector_search
test_vector_search(ctx) ==
    Let(test_vector_search_body(ctx),
        LAMBDA done : except_Exception(done, "test failed", FALSE))

\* choice "1" of the demo's main: TravelPlannerDemo() and run_demo()
interactive_demo(ctx, keyboard, generated) ==
    Then(setup_environment(ctx), LAMBDA demo : run_demo(demo, keyboard, generated))

\* main() of the main module
main(ctx, keyboard, generated) ==
    Then(load_knowledge([ctx EXCEPT !.agent = Agent("NYCAI", 1000)], nyc_knowledge),
         LAMBDA ready :
           plan_nyc_trip(ready,
                         <<Date("2024", "04", "10"), Date("2024", "04", "15")>>,
                         <<"$", "10000">>, MainPreferences,
                         <<Museums, BroadwayShows, CentralPark>>, keyboard, generated))

-----------------------------------------------------------------------------
(* Inputs of a run of the program *)

\* the parts itinerary texts are put together from
Transportation == <<"Transportation:">>
Accommodation == <<"Accommodation:">>
Day1 == <<"Day", " ", "1", ":">>
Day2 == <<"Day", " ", "2", ":">>
Parts == {Transportation, Accommodation, Day1, Day2,
          <<"x">>, <<"\n">>, <<"Day", "1", ":">>}

LabelParts == {Transportation, Accommodation, Day1, Day2}

\* the texts the generation endpoint answers with
GeneratedTexts ==
    { Concat(<<Transportation, <<"x">>, <<"\n">>, Accommodation, <<"x">>, <<"\n">>,
               Day1, <<"x">>, <<"\n">>, Day2, <<"Day", "1", ":">> >>),
      <<"x">>,
      Concat(<<Day1, <<"x">>, <<"\n">>, Day1, <<"Day", "1", ":">> >>) }

\* what the user types at the prompts: a line per prompt, <<>> the empty line;
\* the three prompts whose answers are only displayed get the same kind of answer
Keyboards ==
    { [prompt \in {"start_date", "end_date", "budget", "transport_mode",
                   "accommodation_type", "preferences", "interests",
                   "Preferred mode of transport", "Preferred accommodation type"} |->
         CASE prompt = "start_date" -> start
           [] prompt = "end_date" -> IF typed THEN Date("2024", "05", "01") ELSE <<>>
           [] prompt = "budget" -> IF typed THEN <<"500">> ELSE <<>>
           [] prompt = "transport_mode" -> IF typed THEN <<"bus">> ELSE <<>>
           [] prompt = "accommodation_type" -> IF typed THEN <<"Airbnb">> ELSE <<>>
           [] prompt = "preferences" -> wishes
           [] prompt = "interests" -> likes
           [] prompt = "Preferred mode of transport" -> transport
           [] prompt = "Preferred accommodation type" -> lodging] :
        start \in {<<>>, Date("2024", "04", "12"), <<"tomorrow">>},
        typed \in BOOLEAN,
        wishes \in {<<>>, TypedPreferences},
        likes \in {<<>>, TypedInterestsLine},
        transport \in {<<>>, <<"train">>},
        lodging \in {<<>>, <<"Airbnb">>} }

\* the prompts run_quick_demo and the main module reach
PlanKeyboards ==
    {k \in Keyboards : /\ k["start_date"] = <<>> /\ k["end_date"] = <<>>
                       /\ k["preferences"] = <<>> /\ k["interests"] = <<>>}

\* the endpoint answers this many requests of a run and fails the next one;
\* no run makes as many requests as the largest of these
CallBudgets == 0..(Len(Items(nyc_knowledge)) + Len(test_queries) + 2)

-----------------------------------------------------------------------------
(* The process *)

NoAgent == [name |-> "none"]

\* the endpoints answer only requests that carry the credential
Answered(okLeft) == IF api_key = "set" THEN okLeft ELSE 0

ProcessInit ==
    /\ agents = NewAgents
    /\ embedding_model \in EmbeddingModels
    /\ last = NoCall
    /\ loads = 0
    /\ loaded = {}
    /\ pc = "start"
    /\ program = "none"
    /\ api_key \in {"absent", "empty", "set"}
    /\ choice = "none"
    /\ trace = <<>>
    /\ exit_status = -1
    /\ IdlePresenter

\* the process ends with the context a call of the top level left
Finish(ctx) ==
    /\ agents' = IF ctx.agent.name \in AgentNames
                 THEN [agents EXCEPT ![ctx.agent.name] = ctx.agent]
                 ELSE agents
    /\ trace' = trace \o ctx.trace \o
                  (IF IsException(ctx.exc)
                   THEN << [ev |-> "traceback", exc |-> ctx.exc, uncaught |-> TRUE] >>
                   ELSE <<>>)
    /\ exit_status' = IF ctx.exc = "none" THEN 0 ELSE 1
    /\ pc' = "exited"

\* python <file> up to the menu or to main(): nothing is sent while the modules
\* are imported
StartWithoutClient(file) ==
    /\ pc = "start"
    /\ program' = file
    /\ pc' = IF file = "TRAVEL_ASI_DEMO_GPT" THEN "main" ELSE "menu"
    /\ UNCHANGED <<agents, embedding_model, agentVars, api_key, choice, presenterVars,
                   trace, exit_status>>

\* python <file>: the imports, with client = OpenAI(api_key=os.getenv(...)) of
\* the main module, which the demo imports.  OpenAI(api_key=None) looks the
\* variable up itself and raises OpenAIError when there is none; an empty key
\* is a key to it.
Start(file) ==
    /\ pc = "start"
    /\ program' = file
    /\ IF api_key = "absent"
       THEN /\ trace' = << [ev |-> "traceback", exc |-> "OpenAIError", uncaught |-> TRUE] >>
            /\ exit_status' = 1
            /\ pc' = "exited"
       ELSE /\ pc' = IF file = "TRAVEL_ASI_DEMO_GPT" THEN "main" ELSE "menu"
            /\ UNCHANGED <<trace, exit_status>>
    /\ UNCHANGED <<agents, embedding_model, agentVars, api_key, choice, presenterVars>>

\* the main module run as a program: main()
RunMain(keyboard, okLeft, generated) ==
    /\ pc = "main"
    /\ \E ctx \in {main(Context(NoAgent, Answered(okLeft)), keyboard, generated)} :
         Finish(ctx)
    /\ UNCHANGED <<embedding_model, last, loads, loaded, program, api_key, choice,
                   presenterVars>>

\* the menu of the demo shell: a line that is none of 1 to 4
ChooseInvalid ==
    /\ pc = "menu"
    /\ Cardinality({i \in 1..Len(trace) : trace[i].ev = "invalid choice"})
         < MaxInvalidChoices
    /\ trace' = Append(trace, [ev |-> "invalid choice"])
    /\ UNCHANGED <<agents, embedding_model, last, loads, loaded, pc, program, api_key,
                   choice, exit_status, presenterVars>>

\* choice 4
ChooseExit ==
    /\ pc = "menu"
    /\ choice' = "4"
    /\ trace' = Append(trace, [ev |-> "bye"])
    /\ exit_status' = 0
    /\ pc' = "exited"
    /\ UNCHANGED <<agents, embedding_model, last, loads, loaded, program, api_key,
                   presenterVars>>

\* choice 1
ChooseInteractive(keyboard, okLeft, generated) ==
    /\ pc = "menu"
    /\ choice' = "1"
    /\ \E ctx \in {interactive_demo(Context(NoAgent, Answered(okLeft)), keyboard, generated)} :
         Finish(ctx)
    /\ UNCHANGED <<embedding_model, last, loads, loaded, program, api_key, presenterVars>>

\* choice 2
ChooseQuick(keyboard, okLeft, generated) ==
    /\ pc = "menu"
    /\ choice' = "2"
    /\ \E ctx \in {run_quick_demo(Context(NoAgent, Answered(okLeft)), keyboard, generated)} :
         Finish(ctx)
    /\ UNCHANGED <<embedding_model, last, loads, loaded, program, api_key, presenterVars>>

\* choice 3
ChooseTest(okLeft) ==
    /\ pc = "menu"
    /\ choice' = "3"
    /\ \E ctx \in {test_vector_search(Context(NoAgent, Answered(okLeft)))} :
         Finish(ctx)
    /\ UNCHANGED <<embedding_model, last, loads, loaded, program, api_key, presenterVars>>

ProcessNext ==
    \/ \E file \in {"TRAVEL_ASI_DEMO_GPT", "demo"} : Start(file)
    \/ \E keyboard \in PlanKeyboards : \E okLeft \in CallBudgets :
         \E generated \in GeneratedTexts : RunMain(keyboard, okLeft, generated)
    \/ ChooseInvalid
    \/ ChooseExit
    \/ \E keyboard \in Keyboards : \E okLeft \in CallBudgets :
         \E generated \in GeneratedTexts : ChooseInteractive(keyboard, okLeft, generated)
    \/ \E keyboard \in PlanKeyboards : \E okLeft \in CallBudgets :
         \E generated \in GeneratedTexts : ChooseQuick(keyboard, okLeft, generated)
    \/ \E okLeft \in CallBudgets : ChooseTest(okLeft)

ProcessSpec == ProcessInit /\ [][ProcessNext]_vars

-----------------------------------------------------------------------------
(* The Presenter on its own: present_itinerary on any itinerary text *)

\* the texts of at most n parts, as their sequences of parts
RECURSIVE PartSeqs(_)
PartSeqs(n) ==
    IF n = 0 THEN {<<>>}
    ELSE LET shorter == PartSeqs(n - 1)
         IN  shorter \cup {Append(parts, part) : parts \in {q \in shorter : Len(q) = n - 1},
                                                 part \in Parts}

\* the dates a caller passes: a well-formed pair, and one strptime rejects
PresentedDates ==
    { <<Date("2024", "04", "10"), Date("2024", "04", "15")>>,
      << <<"tomorrow">>, Date("2024", "04", "15")>> }

PresenterInit ==
    /\ agents = NewAgents
    /\ embedding_model = CHOOSE m \in EmbeddingModels : TRUE
    /\ last = NoCall
    /\ loads = 0
    /\ loaded = {}
    /\ pc = "presenter"
    /\ program = "none"
    /\ api_key = "set"
    /\ choice = "none"
    /\ trace = <<>>
    /\ exit_status = -1
    /\ text_parts \in PartSeqs(MaxParts)
    /\ itinerary_text = Concat(text_parts)
    /\ itinerary = <<>>

\* agent.present_itinerary(itinerary_text, budget, travel_dates)
Present(travel_dates) ==
    /\ pc = "presenter"
    /\ \E ctx \in {present_itinerary(Context(agents[Library], 0), itinerary_text,
                                     <<"$", "10000">>, travel_dates)} :
         /\ last' = Outcome("present_itinerary", travel_dates, ctx)
         /\ trace' = ctx.trace
         /\ itinerary' = IF Raised(ctx) THEN itinerary
                         ELSE ctx.trace[Len(ctx.trace)].itinerary
    /\ pc' = "presented"
    /\ UNCHANGED <<agents, embedding_model, loads, loaded, program, api_key, choice,
                   exit_status, text_parts, itinerary_text>>

PresenterNext == \E travel_dates \in PresentedDates : Present(travel_dates)

PresenterSpec == PresenterInit /\ [][PresenterNext]_vars

-----------------------------------------------------------------------------
(* Claims about the Presenter *)

Presented == pc = "presented" /\ last.exc = "none"

\* the labels of the text, in order of occurrence
LabelsOf(parts) == SelectSeq(parts, LAMBDA part : part \in LabelParts)

\* position of the first label after part i, or one past the last part
RECURSIVE NextLabel(_, _)
NextLabel(parts, i) ==
    IF i + 1 > Len(parts) \/ parts[i + 1] \in LabelParts THEN i + 1
    ELSE NextLabel(parts, i + 1)

\* the text between the label at part i and the next label or the end,
\* without the white space around it
Between(parts, i) == strip(Concat(SubSeq(parts, i + 1, NextLabel(parts, i) - 1)))

\* the non-blank texts that follow the occurrences of a label from part i on
RECURSIVE Following(_, _, _)
Following(parts, label, i) ==
    IF i > Len(parts) THEN <<>>
    ELSE (IF parts[i] = label /\ Between(parts, i) # <<>>
          THEN <<Between(parts, i)>> ELSE <<>>)
         \o Following(parts, label, i + 1)

\* C8: text with the labels "Transportation:", "Accommodation:", "Day 1:",
\* "Day 2:" once each in this order is presented as a mapping with exactly these
\* four keys in this order, each holding the text between its label and the next
\* label or the end of the text.
C8_FourLabels ==
    (Presented /\ LabelsOf(text_parts) = <<Transportation, Accommodation, Day1, Day2>>) =>
        /\ dict_keys(itinerary) = <<Transportation, Accommodation, Day1, Day2>>
        /\ \A i \in 1..Len(text_parts) :
             text_parts[i] \in LabelParts =>
                dict_get(itinerary, text_parts[i]) =
                    IF Between(text_parts, i) = <<>> THEN <<>>
                    ELSE <<Between(text_parts, i)>>

\* the four labels with text before the first, between them and after the last
C8_Witness ==
    /\ Presented
    /\ text_parts = <<Transportation, <<"x">>, Accommodation, Day1, Day2>>
    /\ dict_get(itinerary, Transportation) = << <<"x">> >>
    /\ dict_get(itinerary, Day2) = <<>>

\* C9: for any text, every non-blank text that follows an occurrence of a label,
\* up to the next label or the end, is in that label's fragment list, in order
\* of occurrence; only the text before the first label is dropped.
C9_EveryFragmentKept ==
    Presented =>
        \A i \in 1..Len(text_parts) :
            text_parts[i] \in LabelParts =>
                /\ dict_has(itinerary, text_parts[i])
                /\ dict_get(itinerary, text_parts[i]) = Following(text_parts, text_parts[i], 1)

-----------------------------------------------------------------------------
(* Claims about the process *)

Exited == pc = "exited"

\* the positions of the events of a kind in what the process did
Events(kind) == {i \in 1..Len(trace) : trace[i].ev = kind}

\* the requests sent to the two endpoints, and those of them that failed
Calls == Events("embedding") \cup Events("chat")
FailedCalls == {i \in Calls : ~trace[i].ok}

\* the process wrote a message about what went wrong
Diagnosed == Events("diagnostic") \cup Events("traceback") # {}

\* stack traces written by a handler, and by the interpreter for an exception
\* nothing caught
PrintedTraces == {i \in Events("traceback") : ~trace[i].uncaught}
UncaughtTraces == {i \in Events("traceback") : trace[i].uncaught}

\* the queries of the retrievals among the events from position a to b
Retrieved(a, b) ==
    LET found == SelectSeq(SubSeq(trace, a, b), LAMBDA e : e.ev = "retrieve")
    IN  [k \in 1..Len(found) |-> found[k].query]

C5_NothingAfterFailure ==
    \A i \in FailedCalls :
        \A j \in (i + 1)..Len(trace) : trace[j].ev \in {"diagnostic", "traceback"}

\* the interactive demo has ended after its generation call failed, the
\* retrievals done
C5_Witness ==
    /\ Exited
    /\ choice = "1"
    /\ \E i \in FailedCalls :
         /\ trace[i].ev = "chat"
         /\ Len(Retrieved(1, i)) >= 2
         /\ i + 2 = Len(trace)

\* C6 as stated: in the interactive demo, the quick demo and the vector-search
\* test a failure of an endpoint passes through the Agent's operations to the
\* wrapper, which prints a diagnostic and a full stack trace, and the process
\* ends without an uncaught exception.
C6_WrapperPrintsStackTrace ==
    (Exited /\ choice \in {"1", "2", "3"}) =>
        \A i \in FailedCalls :
            /\ i < Len(trace)
            /\ trace[i + 1].ev = "diagnostic"
            /\ \E j \in PrintedTraces : j > i
            /\ UncaughtTraces = {}

\* C6: in the three modes the failure passes through the Agent's operations to
\* the wrapper, which prints a diagnostic, and the process ends with status 0
\* and no uncaught exception; the stack trace is printed by the interactive
\* demo only.
C6_WrapperCatches ==
    (Exited /\ choice \in {"1", "2", "3"}) =>
        \A i \in FailedCalls :
            /\ i < Len(trace)
            /\ trace[i + 1].ev = "diagnostic"
            /\ UncaughtTraces = {}
            /\ exit_status = 0
            /\ (\E j \in PrintedTraces : j > i) <=> choice = "1"

\* the quick demo has ended after a call failed, with its message alone
C6_Witness ==
    /\ Exited
    /\ choice = "2"
    /\ FailedCalls # {}
    /\ trace[Len(trace)] = [ev |-> "diagnostic", what |-> "demo failed"]
    /\ exit_status = 0

\* what a plan that completed did: one generation call, made after the
\* retrievals for the preference text and for every interest, its text handed
\* to the Presenter, and `value` returned to the caller
PlanCompleted(r, value(_)) ==
    /\ Cardinality(Events("chat")) = 1
    /\ \A c \in Events("chat") :
         /\ c < r
         /\ trace[c].ok
         /\ Retrieved(1, c) = <<trace[c].user.preferences>> \o trace[c].user.interests
         /\ Retrieved(c, Len(trace)) = <<>>
         /\ \A p \in Events("present") : p > c /\ trace[p].text = trace[c].response
         /\ Events("present") # {}
         /\ trace[r].value = value(c)

\* C7 as stated: a plan that completes has issued exactly one generation call,
\* after the retrievals, and returns the generated text it hands to the
\* Presenter.
C7_ReturnsGeneratedText ==
    \A r \in Events("return") : PlanCompleted(r, LAMBDA c : trace[c].response)

\* C7: a plan that completes has issued exactly one generation call, after
\* the retrievals for the preference text and every interest, and has handed
\* the generated text to the Presenter; it returns None to its caller.
C7_HandsTextToPresenter ==
    \A r \in Events("return") : PlanCompleted(r, LAMBDA c : None)

\* the quick demo has completed a plan for its three interests
C7_Witness ==
    /\ Exited
    /\ choice = "2"
    /\ exit_status = 0
    /\ Events("return") # {}
    /\ \E c \in Events("chat") : Len(Retrieved(1, c)) = 4

\* C10: every prompt falls back to a default on an empty line, so the
\* transport mode and the accommodation type in the generation request are
\* never empty, and neither are those the demo shell displays.
C10_DefaultsInRequest ==
    /\ \A c \in Events("chat") :
         /\ trace[c].system.transport_mode # <<>>
         /\ trace[c].system.accommodation_type # <<>>
    /\ \A d \in Events("print_prefs") :
         /\ trace[d].transport_mode # <<>>
         /\ trace[d].accommodation_type # <<>>

-----------------------------------------------------------------------------
(* Claims about the trip length *)

\* the lengths of the months of 2024, the year of the dates of the model
Calendar2024 == <<31, 29, 31, 30, 31, 30, 31, 31, 30, 31, 30, 31>>

\* a date text as <<month, day>> of 2024
DayOf(text) == <<NumeralValue[text[3]], NumeralValue[text[5]]>>

\* the day after a day of 2024 (the last day of the year has none in the model)
Tomorrow(day) ==
    IF day[2] < Calendar2024[day[1]] THEN <<day[1], day[2] + 1>>
    ELSE <<day[1] + 1, 1>>

Earlier(a, b) == a[1] < b[1] \/ (a[1] = b[1] /\ a[2] < b[2])

\* the number of midnights passed from one day to a later one, counted one by one
RECURSIVE Nights(_, _)
Nights(from, to) ==
    IF from = to THEN 0
    ELSE IF Earlier(to, from) THEN 0 - Nights(to, from)
    ELSE 1 + Nights(Tomorrow(from), to)

\* C11: the trip length the Presenter and the demo's result analysis compute is
\* the number of days elapsed from the start date to the end date, the end day
\* not counted; for 2024-04-10 and 2024-04-15 it is 5.
C11_ElapsedDays ==
    \A p \in Events("present") \cup Events("analysis") :
        \A c \in Events("chat") :
            LET dates == trace[c].user.travel_dates
            IN  /\ trace[p].num_days = Nights(DayOf(dates[1]), DayOf(dates[2]))
                /\ dates = <<Date("2024", "04", "10"), Date("2024", "04", "15")>>
                     => trace[p].num_days = 5

\* the quick demo has presented and analysed its plan for 2024-04-10 to
\* 2024-04-15
C11_Witness ==
    /\ Exited
    /\ choice = "2"
    /\ \E p \in Events("present") : trace[p].num_days = 5
    /\ \E a \in Events("analysis") : trace[a].num_days = 5
    /\ \E c \in Events("chat") :
         trace[c].user.travel_dates = <<Date("2024", "04", "10"), Date("2024", "04", "15")>>

-----------------------------------------------------------------------------
(* The digest on its own: summarize_knowledge on any list of records *)

\* the records of the two knowledge bases, and one without a description
DigestRecords ==
    {it[2] : it \in Range(Items(nyc_knowledge) \o Items(city_guide))}
    \cup { << <<"tips", <<"Bring water">> >> >> }

\* the lists of at most n records
RECURSIVE RecordLists(_)
RecordLists(n) ==
    IF n = 0 THEN {<<>>}
    ELSE LET shorter == RecordLists(n - 1)
         IN  shorter \cup {Append(list, record) :
                              list \in {q \in shorter : Len(q) = n - 1},
                              record \in DigestRecords}

DigestInit ==
    /\ agents = NewAgents
    /\ embedding_model = CHOOSE m \in EmbeddingModels : TRUE
    /\ last = NoCall
    /\ loads = 0
    /\ loaded = {}
    /\ pc = "digest"
    /\ program = "none"
    /\ api_key = "set"
    /\ choice = "none"
    /\ trace = <<>>
    /\ exit_status = -1
    /\ IdlePresenter

\* agent.summarize_knowledge(knowledge_list)
Summarize(knowledge_list) ==
    /\ pc = "digest"
    /\ last' = [op |-> "summarize_knowledge", who |-> Library, arg |-> knowledge_list,
                calls |-> <<>>, exc |-> "none",
                value |-> summarize_knowledge(knowledge_list)]
    /\ UNCHANGED <<agents, embedding_model, loads, loaded, processVars, presenterVars>>

DigestNext == \E knowledge_list \in RecordLists(MaxRecords) : Summarize(knowledge_list)

DigestSpec == DigestInit /\ [][DigestNext]_vars

-----------------------------------------------------------------------------
(* Claims about the digest *)

Summarized == last.op = "summarize_knowledge"

\* C12: the digest of an empty list of records is the empty string: no heading,
\* no description line and no separator is written.
C12_EmptyDigest ==
    (Summarized /\ last.arg = <<>>) => last.value = <<>>

\* the empty list has been summarized
C12_Witness ==
    /\ Summarized
    /\ last.arg = <<>>
    /\ last.value = <<>>

-----------------------------------------------------------------------------
(* Two Agent instances side by side, each made with cache_size 1 *)

InstancesInit ==
    /\ agents = [a \in AgentNames |-> Agent(a, 1)]
    /\ embedding_model = CHOOSE m \in EmbeddingModels :
                            \E p, q \in Payloads : m[p] # m[q]
    /\ last = NoCall
    /\ loads = 0
    /\ loaded = {}
    /\ pc = "instances"
    /\ program = "none"
    /\ api_key = "set"
    /\ choice = "none"
    /\ trace = <<>>
    /\ exit_status = -1
    /\ IdlePresenter

\* agents[who].load_knowledge(nyc_knowledge), the endpoint answering okLeft
\* more requests
LoadOn(who, okLeft) ==
    /\ pc = "instances"
    /\ loads < MaxLoads
    /\ \E ctx \in {load_knowledge(Context(agents[who], okLeft), nyc_knowledge)} :
           /\ agents' = [agents EXCEPT ![who] = ctx.agent]
           /\ last' = Outcome("load_knowledge", "nyc", ctx)
    /\ loads' = loads + 1
    /\ UNCHANGED <<embedding_model, loaded, processVars, presenterVars>>

\* agents[who].retrieve_knowledge(query)
RetrieveOn(who, query, okLeft) ==
    /\ pc = "instances"
    /\ \E ctx \in {retrieve_knowledge(Context(agents[who], okLeft), query)} :
           /\ agents' = [agents EXCEPT ![who] = ctx.agent]
           /\ last' = Outcome("retrieve_knowledge", query, ctx)
    /\ UNCHANGED <<embedding_model, loads, loaded, processVars, presenterVars>>

InstancesNext ==
    \/ \E who \in AgentNames : \E okLeft \in 0..Len(Items(nyc_knowledge)) :
         LoadOn(who, okLeft)
    \/ \E who \in AgentNames : \E query \in LibraryQueries : \E okLeft \in 0..1 :
         RetrieveOn(who, query, okLeft)

InstancesSpec == InstancesInit /\ [][InstancesNext]_vars

-----------------------------------------------------------------------------
(* Claims about the embedding cache *)

CacheOf(a) == agents[a].embedding_cache

\* C13: over any loads and retrievals the embedding cache only grows: an entry
\* is never removed and never given another vector, an embedding obtained is
\* entered whatever the configured cache size, and an operation on one
\* instance leaves the cache of the other instance as it was.
C13_CacheAppendOnly ==
    [][ /\ \A a \in AgentNames : \A t \in DOMAIN CacheOf(a) :
             /\ t \in DOMAIN agents'[a].embedding_cache
             /\ agents'[a].embedding_cache[t] = CacheOf(a)[t]
        /\ \A i \in 1..Len(last'.calls) :
             last'.calls[i].ok =>
                 last'.calls[i].text \in DOMAIN agents'[last'.who].embedding_cache
        /\ \A a \in AgentNames \ {last'.who} :
             agents'[a].embedding_cache = CacheOf(a)
      ]_vars

\* one instance holds more entries than its cache_size, among them a text the
\* other instance, which holds entries too, does not hold
C13_Witness ==
    /\ Cardinality(DOMAIN CacheOf("NYCAI")) > agents["NYCAI"].cache_size + 1
    /\ Museums \in DOMAIN CacheOf("NYCAI")
    /\ Museums \notin DOMAIN CacheOf("TestAgent")
    /\ CentralPark \in DOMAIN CacheOf("TestAgent")

====
